---------------------------- MODULE Spec2Model ----------------------------
(***************************************************************************)
(* A model of shore's setuptools plugin (src/shore/plugins/setuptools.py): *)
(* the marked-section rewriter and the MANIFEST.in renderer, the sdist     *)
(* build target, the version scanner, and the two pieces of the setup.py   *)
(* renderer that compute text (the description and the entry points).      *)
(* Python strings are TLA+ strings; indices are Python's (0-based).        *)
(***************************************************************************)
EXTENDS Integers, Sequences, FiniteSets, TLC

VARIABLES
  \* ---- MANIFEST.in rendering (_render_manifest, rewrite_section) ----
  existing,     \* text of MANIFEST.in on disk before the first render
  hasCurrent,   \* whether `current` is a file object (the file exists)
  current,      \* what current.read() returns in this pass
  manifest,     \* package.manifest: the rule list
  fp,           \* everything written to fp in this pass
  mpc,          \* position in _render_manifest
  idx,          \* number of manifest entries written in this pass
  pass,         \* 1: first render, 2: render against the first output
  first,        \* the text the first pass produced
  \* ---- SetuptoolsBuildTarget.build ----
  formats,          \* self.formats
  build_directory,  \* the requested output directory (a path string)
  dirs,             \* the directories that exist
  files,            \* the regular files that exist, as <<directory, name>>
  dist_exists,      \* the local of build(): dist existed on entry
  distBefore,       \* ghost: dist existed before the invocation
  distAtExit,       \* ghost: the files of dist when the subprocess returned
  res,              \* the subprocess's exit code
  bpc,              \* position in build()
  bi,               \* number of artifacts the loop has handled
  result,           \* what build() returned or raised
  \* ---- get_package_version_refs ----
  entryIsFile,   \* os.path.isfile(entry_file)
  entryReadable, \* open(entry_file) and fp.read() succeed
  entryText,     \* the entry file's text
  vpc,           \* position in get_package_version_refs
  refs,          \* the VersionRefs yielded
  verror,        \* the error raised to the caller, "" for none
  \* ---- _render_setup: description ----
  description,   \* package.description
  dpc,
  rendered,      \* the description handed to the setup() template
  \* ---- _render_entrypoints ----
  entrypoints,   \* package.entrypoints, in insertion order
  epc,
  eout           \* the returned text

manifestVars == <<existing, hasCurrent, current, manifest, fp, mpc, idx, pass, first>>
buildVars == <<formats, build_directory, dirs, files, dist_exists, distBefore,
               distAtExit, res, bpc, bi, result>>
versionVars == <<entryIsFile, entryReadable, entryText, vpc, refs, verror>>
descVars == <<description, dpc, rendered>>
entryVars == <<entrypoints, epc, eout>>
vars == <<manifestVars, buildVars, versionVars, descVars, entryVars>>

----------------------------------------------------------------------------
(* Bounds of the model *)

MaxChunks == 3       \* pieces an existing MANIFEST.in is made of
MaxRules == 2        \* manifest rules
MaxFormats == 2      \* requested archive formats
MaxEntryChunks == 3  \* pieces the entry file is made of
MaxDescChunks == 4   \* pieces a description is made of
MaxGroups == 2       \* entry-point groups
MaxItems == 2        \* specs per entry-point group

\* What each operation leaves alone: the state of the other operations.
ManifestOnly == UNCHANGED <<buildVars, versionVars, descVars, entryVars>>
BuildOnly == UNCHANGED <<manifestVars, versionVars, descVars, entryVars>>
VersionOnly == UNCHANGED <<manifestVars, buildVars, descVars, entryVars>>
DescOnly == UNCHANGED <<manifestVars, buildVars, versionVars, entryVars>>
EntryOnly == UNCHANGED <<manifestVars, buildVars, versionVars, descVars>>

----------------------------------------------------------------------------
(* Python's str operations *)

Min(S) == CHOOSE x \in S : \A y \in S : x <= y

\* All concatenations of at most n elements of the set of strings `chunks`.
RECURSIVE Concats(_, _)
Concats(chunks, n) ==
  IF n = 0 THEN {""}
  ELSE LET shorter == Concats(chunks, n - 1)
       IN  shorter \cup {s \o c : s \in shorter, c \in chunks}

\* All sequences of at most n elements of S.
RECURSIVE SeqsUpTo(_, _)
SeqsUpTo(S, n) ==
  IF n = 0 THEN {<<>>}
  ELSE LET shorter == SeqsUpTo(S, n - 1)
       IN  shorter \cup {Append(q, x) : q \in shorter, x \in S}

\* s[lo:hi] for lo, hi >= 0
PySlice(s, lo, hi) ==
  LET n == Len(s)
      a == IF lo > n THEN n ELSE lo
      b == IF hi > n THEN n ELSE hi
  IN  IF a >= b THEN "" ELSE SubSeq(s, a + 1, b)

\* s[lo:] for lo >= 0
PySliceFrom(s, lo) == PySlice(s, lo, Len(s))

\* s.startswith(sub, at)
StartsWithAt(s, sub, at) ==
  /\ at >= 0
  /\ at + Len(sub) <= Len(s)
  /\ SubSeq(s, at + 1, at + Len(sub)) = sub

\* s.find(sub, start): the lowest index >= start where sub occurs, or -1.
\* A negative start counts from the end of s (and is clamped to 0).
PyFind(s, sub, start) ==
  LET n == Len(s)
      st == IF start < 0 THEN (IF start + n < 0 THEN 0 ELSE start + n) ELSE start
      hits == {i \in st..(n - Len(sub)) : StartsWithAt(s, sub, i)}
  IN  IF hits = {} THEN -1 ELSE Min(hits)

\* sub in s
PyIn(sub, s) == PyFind(s, sub, 0) >= 0

\* s.replace(old, new), old non-empty: left to right, non-overlapping.
RECURSIVE PyReplace(_, _, _)
PyReplace(s, old, new) ==
  IF Len(s) < Len(old) THEN s
  ELSE IF StartsWithAt(s, old, 0)
       THEN new \o PyReplace(PySliceFrom(s, Len(old)), old, new)
       ELSE SubSeq(s, 1, 1) \o PyReplace(PySliceFrom(s, 1), old, new)

\* The whitespace str.strip() and the regex class \s remove or match, as far
\* as TLA+ string literals can write it.
Whitespace == {" ", "\t", "\n", "\r", "\f"}

IsSpaceAt(s, at) == at >= 0 /\ at < Len(s) /\ SubSeq(s, at + 1, at + 1) \in Whitespace

RECURSIVE PyLStrip(_)
PyLStrip(s) == IF IsSpaceAt(s, 0) THEN PyLStrip(PySliceFrom(s, 1)) ELSE s

RECURSIVE PyRStrip(_)
PyRStrip(s) ==
  IF IsSpaceAt(s, Len(s) - 1) THEN PyRStrip(PySlice(s, 0, Len(s) - 1)) ELSE s

\* s.strip()
PyStrip(s) == PyRStrip(PyLStrip(s))

\* sep.join(parts)
RECURSIVE PyJoin(_, _)
PyJoin(sep, parts) ==
  IF parts = <<>> THEN ""
  ELSE IF Len(parts) = 1 THEN parts[1]
  ELSE parts[1] \o sep \o PyJoin(sep, Tail(parts))

\* The number of places where sub occurs in s.
Occurrences(s, sub) == Cardinality({i \in 0..Len(s) : StartsWithAt(s, sub, i)})

----------------------------------------------------------------------------
(* split_section, rewrite_section and _render_manifest *)

_BEGIN_SECTION == "# Auto-generated with shore. Do not edit. {"
_END_SECTION == "# }"

\* split_section with the suffix taken from the end-marker itself.
split_section_keeps_end(data, begin_marker, end_marker) ==
  LET start == PyFind(data, begin_marker, 0)
      end == PyFind(data, end_marker, start)
  IN  IF start >= 0 /\ end >= 0
      THEN <<PySlice(data, 0, start),
             PySlice(data, start + Len(begin_marker), end),
             PySliceFrom(data, end)>>
      ELSE <<data, "", "">>

\* split_section without the one skipped character after the end-marker.
split_section_no_skip(data, begin_marker, end_marker) ==
  LET start == PyFind(data, begin_marker, 0)
      end == PyFind(data, end_marker, start)
  IN  IF start >= 0 /\ end >= 0
      THEN <<PySlice(data, 0, start),
             PySlice(data, start + Len(begin_marker), end),
             PySliceFrom(data, end + Len(end_marker))>>
      ELSE <<data, "", "">>

\* split_section(data, begin_marker, end_marker) -> (prefix, middle, suffix)
split_section(data, begin_marker, end_marker) ==
  LET start == PyFind(data, begin_marker, 0)
      end == PyFind(data, end_marker, start)
  IN  IF start >= 0 /\ end >= 0
      THEN <<PySlice(data, 0, start),
             PySlice(data, start + Len(begin_marker), end),
             PySliceFrom(data, end + Len(end_marker) + 1)>>
      ELSE <<data, "", "">>

\* The pieces existing manifest texts are made of: the two markers, a line
\* break, a character that is no line break, and the start both markers share.
ManifestChunks == {_BEGIN_SECTION, _END_SECTION, "\n", "x", "# "}
ManifestTexts == Concats(ManifestChunks, MaxChunks)

\* Manifest rules are opaque text: an ordinary rule, and comment lines that
\* happen to read like the markers.
ManifestRules == {"include LICENSE", _END_SECTION, _BEGIN_SECTION}

\* current.read() if current else ''
CurrentData == IF hasCurrent THEN current ELSE ""

ManifestIdle ==
  /\ existing = "" /\ hasCurrent = FALSE /\ current = "" /\ manifest = <<>>
  /\ fp = "" /\ mpc = "idle" /\ idx = 0 /\ pass = 0 /\ first = ""

ManifestInit ==
  /\ hasCurrent \in BOOLEAN
  /\ existing \in (IF hasCurrent THEN ManifestTexts ELSE {""})
  /\ current = existing
  /\ manifest \in SeqsUpTo(ManifestRules, MaxRules)
  /\ fp = "" /\ mpc = "enter" /\ idx = 0 /\ pass = 1 /\ first = ""

\* rewrite_section up to its yield: lines 63-66
rewrite_section_enter ==
  /\ ManifestOnly
  /\ mpc = "enter"
  /\ LET parts == split_section(CurrentData, _BEGIN_SECTION, _END_SECTION)
         prefix == parts[1]
     IN  fp' = fp \o prefix \o _BEGIN_SECTION \o "\n"
  /\ mpc' = "body"
  /\ UNCHANGED <<existing, hasCurrent, current, manifest, idx, pass, first>>

\* One turn of the loop of _render_manifest: fp.write('{}\n'.format(entry))
_render_manifest_entry ==
  /\ ManifestOnly
  /\ mpc = "body"
  /\ idx < Len(manifest)
  /\ fp' = fp \o manifest[idx + 1] \o "\n"
  /\ idx' = idx + 1
  /\ UNCHANGED <<existing, hasCurrent, current, manifest, mpc, pass, first>>

\* The with-block raises (fp.write fails): contextlib throws the error into
\* the generator at its yield, where no try/finally encloses it, so lines
\* 67-68 never run and the error reaches the caller.
_render_manifest_raises ==
  /\ ManifestOnly
  /\ mpc = "body"
  /\ mpc' = "raised"
  /\ UNCHANGED <<existing, hasCurrent, current, manifest, fp, idx, pass, first>>

\* The with-block ends normally; rewrite_section resumes after its yield:
\* lines 67-68
rewrite_section_exit ==
  /\ ManifestOnly
  /\ mpc = "body"
  /\ idx = Len(manifest)
  /\ LET parts == split_section(CurrentData, _BEGIN_SECTION, _END_SECTION)
         suffix == parts[3]
     IN  fp' = fp \o _END_SECTION \o "\n" \o suffix
  /\ mpc' = "done"
  /\ UNCHANGED <<existing, hasCurrent, current, manifest, idx, pass, first>>

\* The rendered text becomes the file, and the package is rendered again
\* with the same rules.
RenderAgain ==
  /\ ManifestOnly
  /\ mpc = "done"
  /\ pass = 1
  /\ first' = fp
  /\ current' = fp
  /\ hasCurrent' = TRUE
  /\ fp' = ""
  /\ idx' = 0
  /\ pass' = 2
  /\ mpc' = "enter"
  /\ UNCHANGED <<existing, manifest>>

----------------------------------------------------------------------------
(* SetuptoolsBuildTarget *)

_FORMATS_MAP ==
  [f \in {"zip", "gztar", "bztar", "ztar", "tar"} |->
     CASE f = "zip" -> ".zip"
       [] f = "gztar" -> ".tar.gz"
       [] f = "bztar" -> ".tar.bz2"
       [] f = "ztar" -> ".tar.Z"
       [] f = "tar" -> ".tar"]

\* The package being built: package.name, package.version, package.directory
PackageName == "demo"
PackageVersion == "1.0"
PackageDirectory == "pkg"

\* The formats self.formats is drawn from
FormatChoices == {"gztar", "zip"}

\* os.path.join(a, b) for a relative b
PathJoin(a, b) ==
  IF Len(a) > 0 /\ SubSeq(a, Len(a), Len(a)) # "/" THEN a \o "/" \o b ELSE a \o b

\* The directory a path string names: "./" in front and "/" behind do not
\* change it.
RECURSIVE DirOf(_)
DirOf(p) ==
  IF StartsWithAt(p, "./", 0) THEN DirOf(PySliceFrom(p, 2))
  ELSE IF Len(p) > 1 /\ SubSeq(p, Len(p), Len(p)) = "/"
       THEN DirOf(PySlice(p, 0, Len(p) - 1))
       ELSE p

\* get_build_artifacts(): one file name per requested format
get_build_artifacts ==
  [i \in 1..Len(formats) |->
     PackageName \o "-" \o PackageVersion \o _FORMATS_MAP[formats[i]]]

\* dist_directory = os.path.join(self.package.directory, 'dist')
dist_directory == PathJoin(PackageDirectory, "dist")

\* The directories build() may be asked to put the artifacts in: dist itself
\* (spelled as build() spells it, and two other ways), a directory inside
\* dist, another directory, and one that does not exist.
BuildDirectories ==
  {"pkg/dist", "pkg/dist/", "./pkg/dist", "pkg/dist/sub", "out", "gone"}

ArtifactNames ==
  {PackageName \o "-" \o PackageVersion \o _FORMATS_MAP[f] : f \in FormatChoices}

\* os.path.isfile(os.path.join(d, name))
IsFile(fs, d, name) == <<DirOf(d), name>> \in fs

\* d is dist_directory or lies beneath it
InTree(d, root) == d = root \/ StartsWithAt(d, root \o "/", 0)

\* if res != 0 that never holds
BuildFailedNever(r) == FALSE

\* if res != 0: return BuildResult.FAILURE
BuildFailed(r) == r # 0

\* cleanup whether or not dist existed
CleansUpAlways(existed) == TRUE

\* if not dist_exists: shutil.rmtree(dist_directory)
CleansUp(existed) == ~existed

BuildIdle ==
  /\ formats = <<>> /\ build_directory = "" /\ dirs = {} /\ files = {}
  /\ dist_exists = FALSE /\ distBefore = FALSE /\ distAtExit = {} /\ res = 0
  /\ bpc = "idle" /\ bi = 0 /\ result = ""

BuildInit ==
  /\ formats \in SeqsUpTo(FormatChoices, MaxFormats)
  /\ build_directory \in BuildDirectories
  /\ distBefore \in BOOLEAN
  /\ \E sub \in BOOLEAN :
       dirs = {"out"} \cup (IF distBefore THEN {dist_directory} ELSE {})
                      \cup (IF distBefore /\ sub THEN {"pkg/dist/sub"} ELSE {})
  /\ \E stale \in SUBSET ArtifactNames, old \in SUBSET ArtifactNames :
       files = {<<dist_directory, n>> : n \in (IF distBefore THEN stale ELSE {})}
               \cup {<<"out", n>> : n \in old}
  /\ dist_exists = FALSE /\ distAtExit = {} /\ res = 0
  /\ bpc = "start" /\ bi = 0 /\ result = ""

\* Lines 100-108: note whether dist exists, then run `python setup.py sdist
\* --formats ...` in the package directory. The subprocess ends with some
\* exit code, having written some archives to dist (creating dist for them)
\* or none.
build_call ==
  /\ BuildOnly
  /\ bpc = "start"
  /\ dist_exists' = (dist_directory \in dirs)
  /\ \E code \in {0, 1}, made \in SUBSET ArtifactNames, mkdir \in BOOLEAN :
       /\ res' = code
       /\ dirs' = IF made # {} \/ mkdir THEN dirs \cup {dist_directory} ELSE dirs
       /\ files' = files \cup {<<dist_directory, n>> : n \in made}
       /\ distAtExit' = {f[2] : f \in {g \in files' : g[1] = dist_directory}}
  /\ bpc' = "called"
  /\ UNCHANGED <<formats, build_directory, distBefore, bi, result>>

\* Lines 109-110
build_check ==
  /\ BuildOnly
  /\ bpc = "called"
  /\ IF BuildFailed(res)
     THEN result' = "FAILURE" /\ bpc' = "done"
     ELSE result' = result /\ bpc' = "loop"
  /\ UNCHANGED <<formats, build_directory, dirs, files, dist_exists, distBefore,
                 distAtExit, res, bi>>

\* One turn of the loop of lines 113-121
build_move ==
  /\ BuildOnly
  /\ bpc = "loop"
  /\ bi < Len(get_build_artifacts)
  /\ LET filename == get_build_artifacts[bi + 1]
         src == PathJoin(dist_directory, filename)
         dst == PathJoin(build_directory, filename)
         srcFile == <<DirOf(dist_directory), filename>>
         dstFile == <<DirOf(build_directory), filename>>
         removed == IF IsFile(files, build_directory, filename)
                    THEN files \ {dstFile} ELSE files
     IN  IF ~IsFile(files, dist_directory, filename)
         THEN \* raise RuntimeError('{} not produced during build')
              /\ result' = "RuntimeError" /\ bpc' = "done"
              /\ UNCHANGED <<files, bi>>
         ELSE IF src = dst
         THEN /\ bi' = bi + 1
              /\ UNCHANGED <<files, result, bpc>>
         ELSE IF srcFile \notin removed \/ DirOf(build_directory) \notin dirs
         THEN \* os.rename raises FileNotFoundError
              /\ files' = removed
              /\ result' = "FileNotFoundError" /\ bpc' = "done"
              /\ UNCHANGED bi
         ELSE /\ files' = (removed \ {srcFile}) \cup {dstFile}
              /\ bi' = bi + 1
              /\ UNCHANGED <<result, bpc>>
  /\ UNCHANGED <<formats, build_directory, dirs, dist_exists, distBefore,
                 distAtExit, res>>

\* Lines 123-127
build_cleanup ==
  /\ BuildOnly
  /\ bpc = "loop"
  /\ bi = Len(get_build_artifacts)
  /\ IF CleansUp(dist_exists)
     THEN IF dist_directory \notin dirs
          THEN \* shutil.rmtree raises FileNotFoundError
               /\ result' = "FileNotFoundError"
               /\ UNCHANGED <<dirs, files>>
          ELSE /\ dirs' = {d \in dirs : ~InTree(d, dist_directory)}
               /\ files' = {f \in files : ~InTree(f[1], dist_directory)}
               /\ result' = "SUCCESS"
     ELSE /\ result' = "SUCCESS"
          /\ UNCHANGED <<dirs, files>>
  /\ bpc' = "done"
  /\ UNCHANGED <<formats, build_directory, dist_exists, distBefore, distAtExit,
                 res, bi>>

----------------------------------------------------------------------------
(* SetuptoolsRenderer.get_package_version_refs *)

\* _VERSION_REGEX = '__version__\s*=\s*[\'"]([^\'"]+)[\'"]'
VersionWord == "__version__"
Quotes == {"'", "\""}

IsQuoteAt(s, at) == at >= 0 /\ at < Len(s) /\ SubSeq(s, at + 1, at + 1) \in Quotes

\* \s* from `at`: the index after the run of whitespace
RECURSIVE SkipSpaces(_, _)
SkipSpaces(s, at) == IF IsSpaceAt(s, at) THEN SkipSpaces(s, at + 1) ELSE at

\* [^'"]* from `at`: the index after the run of characters that are no quote
RECURSIVE SkipNonQuotes(_, _)
SkipNonQuotes(s, at) ==
  IF at < Len(s) /\ ~IsQuoteAt(s, at) THEN SkipNonQuotes(s, at + 1) ELSE at

\* The match of _VERSION_REGEX that starts at index `at`, as <<start(1),
\* end(1)>>, or <<>> for none. Every repetition is followed by a character
\* outside its class, so the greedy run is the only candidate.
VersionMatchAt(s, at) ==
  LET eq == SkipSpaces(s, at + Len(VersionWord))
      open == SkipSpaces(s, eq + 1)
      close == SkipNonQuotes(s, open + 1)
  IN  IF /\ StartsWithAt(s, VersionWord, at)
         /\ StartsWithAt(s, "=", eq)
         /\ IsQuoteAt(s, open)
         /\ close > open + 1
         /\ IsQuoteAt(s, close)
      THEN <<open + 1, close>>
      ELSE <<>>

\* re.search(_VERSION_REGEX, text): the leftmost match, or <<>>
VersionSearch(s) ==
  LET hits == {i \in 0..Len(s) : VersionMatchAt(s, i) # <<>>}
  IN  IF hits = {} THEN <<>> ELSE VersionMatchAt(s, Min(hits))

EntryFile == "src/demo/__init__.py"

EntryChunks == {VersionWord, " = ", "'1.0'", "\"2", "\n", "x"}
EntryTexts == Concats(EntryChunks, MaxEntryChunks)

\* the isfile test left out
EntryFileMissingNever(isfile) == FALSE

\* if not os.path.isfile(entry_file): return
EntryFileMissing(isfile) == ~isfile

VersionIdle ==
  /\ entryIsFile = FALSE /\ entryReadable = FALSE /\ entryText = ""
  /\ vpc = "idle" /\ refs = <<>> /\ verror = ""

VersionInit ==
  /\ entryIsFile \in BOOLEAN
  /\ entryReadable \in (IF entryIsFile THEN BOOLEAN ELSE {FALSE})
  /\ entryText \in (IF entryIsFile THEN EntryTexts ELSE {""})
  /\ vpc = "start" /\ refs = <<>> /\ verror = ""

\* get_package_version_refs, consumed to its end by the caller
get_package_version_refs ==
  /\ VersionOnly
  /\ vpc = "start"
  /\ IF EntryFileMissing(entryIsFile)
     THEN refs' = <<>> /\ verror' = ""
     ELSE IF ~entryIsFile
     THEN \* open() of a path that is no file
          refs' = <<>> /\ verror' = "FileNotFoundError"
     ELSE IF ~entryReadable
     THEN refs' = <<>> /\ verror' = "OSError"
     ELSE LET match == VersionSearch(entryText)
          IN  /\ refs' = IF match = <<>> THEN <<>>
                         ELSE <<[filename |-> EntryFile,
                                 start |-> match[1],
                                 end |-> match[2],
                                 value |-> PySlice(entryText, match[1], match[2])]>>
              /\ verror' = ""
  /\ vpc' = "done"
  /\ UNCHANGED <<entryIsFile, entryReadable, entryText>>

----------------------------------------------------------------------------
(* SetuptoolsRenderer._render_setup: the description argument *)

\* The description with the sentinel restored to a blank line.
DescriptionArgBlankLine(d) ==
  PyStrip(PyReplace(PyReplace(PyReplace(d, "\n\n", "%%%%"), "\n", " "), "%%%%", "\n\n"))

\* package.description.replace('\n\n', '%%%%').replace('\n', ' ')
\*   .replace('%%%%', '\n').strip()
DescriptionArg(d) ==
  PyStrip(PyReplace(PyReplace(PyReplace(d, "\n\n", "%%%%"), "\n", " "), "%%%%", "\n"))

ExampleDescription == "Line one.\n\nLine two.\nLine three."

DescChunks == {"\n", " ", "a", "%%"}
Descriptions == Concats(DescChunks, MaxDescChunks) \cup {ExampleDescription}

DescIdle == description = "" /\ dpc = "idle" /\ rendered = ""

DescInit == description \in Descriptions /\ dpc = "start" /\ rendered = ""

\* Line 254: the value of the description field of the setup() template
_render_setup_description ==
  /\ DescOnly
  /\ dpc = "start"
  /\ rendered' = DescriptionArg(description)
  /\ dpc' = "done"
  /\ UNCHANGED description

----------------------------------------------------------------------------
(* SetuptoolsRenderer._render_entrypoints *)

\* _ENTRTYPOINT_VARS, in the order the dict is written
_ENTRTYPOINT_VARS ==
  << <<"python-major-version", "sys.version[0]">>,
     <<"python-major-minor-version", "sys.version[:3]">> >>

\* repr(s) of a str without quotes, backslashes or unprintable characters
PyRepr(s) == "'" \o s \o "'"

\* str(n) of a small number
PyStr(n) == CASE n = 0 -> "0" [] n = 1 -> "1" [] n = 2 -> "2" [] n = 3 -> "3"

\* The loop of lines 275-279 from the k-th variable on: <<item, args>>
RECURSIVE SubstituteVars(_, _, _)
SubstituteVars(item, args, k) ==
  IF k > Len(_ENTRTYPOINT_VARS) THEN <<item, args>>
  ELSE LET varname == "{{" \o _ENTRTYPOINT_VARS[k][1] \o "}}"
           expr == _ENTRTYPOINT_VARS[k][2]
       IN  IF PyIn(varname, item)
           THEN SubstituteVars(PyReplace(item, varname, "{" \o PyStr(Len(args)) \o "}"),
                               Append(args, expr), k + 1)
           ELSE SubstituteVars(item, args, k + 1)

\* Lines 273-282: the line one spec becomes
ItemLine(spec) ==
  LET sub == SubstituteVars(PyRepr(spec), <<>>, 1)
      item == IF sub[2] # <<>>
              THEN sub[1] \o ".format(" \o PyJoin(", ", sub[2]) \o ")"
              ELSE sub[1]
  IN  "      " \o PyStrip(item) \o ","

\* Lines 271-283: the lines one group becomes
GroupLines(key, value) ==
  <<"    " \o PyRepr(key) \o ": [">>
  \o [i \in 1..Len(value) |-> ItemLine(value[i])]
  \o <<"    ],">>

RECURSIVE AllGroupLines(_)
AllGroupLines(groups) ==
  IF groups = <<>> THEN <<>>
  ELSE GroupLines(groups[1][1], groups[1][2]) \o AllGroupLines(Tail(groups))

\* no group has a spec
NoEntrypointsNoSpecs(groups) == \A i \in 1..Len(groups) : groups[i][2] = <<>>

\* if not entrypoints
NoEntrypoints(groups) == groups = <<>>

\* _render_entrypoints(entrypoints)
_render_entrypoints(groups) ==
  IF NoEntrypoints(groups) THEN "{}"
  ELSE LET lines == <<"{">> \o AllGroupLines(groups)
           last == lines[Len(lines)]
           cut == [lines EXCEPT ![Len(lines)] = PySlice(last, 0, Len(last) - 1)]
       IN  PyJoin("\n", Append(cut, "  }"))

GroupNames == {"console_scripts", "gui_scripts", "distutils.commands"}
EntrySpecs == {"run = demo:main", "run{{python-major-version}} = demo:main"}

\* The mappings of at most MaxGroups groups with at most MaxItems specs each,
\* as sequences of <<group, specs>> in insertion order.
EntrypointMaps ==
  {m \in SeqsUpTo(GroupNames \X SeqsUpTo(EntrySpecs, MaxItems), MaxGroups) :
     \A i, j \in 1..Len(m) : i # j => m[i][1] # m[j][1]}

EntryIdle == entrypoints = <<>> /\ epc = "idle" /\ eout = ""

EntryInit == entrypoints \in EntrypointMaps /\ epc = "start" /\ eout = ""

\* Line 263: entry_points=self._render_entrypoints(package.entrypoints)
_render_setup_entry_points ==
  /\ EntryOnly
  /\ epc = "start"
  /\ eout' = _render_entrypoints(entrypoints)
  /\ epc' = "done"
  /\ UNCHANGED entrypoints

----------------------------------------------------------------------------
(* The specifications *)

ManifestNext == rewrite_section_enter \/ _render_manifest_entry \/ _render_manifest_raises \/ rewrite_section_exit \/ RenderAgain

BuildNext == build_call \/ build_check \/ build_move \/ build_cleanup

VersionNext == get_package_version_refs

DescNext == _render_setup_description

EntryNext == _render_setup_entry_points

InitManifest == ManifestInit /\ BuildIdle /\ VersionIdle /\ DescIdle /\ EntryIdle
InitBuild == ManifestIdle /\ BuildInit /\ VersionIdle /\ DescIdle /\ EntryIdle
InitVersion == ManifestIdle /\ BuildIdle /\ VersionInit /\ DescIdle /\ EntryIdle
InitDescription == ManifestIdle /\ BuildIdle /\ VersionIdle /\ DescInit /\ EntryIdle
InitEntrypoints == ManifestIdle /\ BuildIdle /\ VersionIdle /\ DescIdle /\ EntryInit

SpecManifest == InitManifest /\ [][ManifestNext]_vars
SpecBuild == InitBuild /\ [][BuildNext]_vars
SpecVersion == InitVersion /\ [][VersionNext]_vars
SpecDescription == InitDescription /\ [][DescNext]_vars
SpecEntrypoints == InitEntrypoints /\ [][EntryNext]_vars

----------------------------------------------------------------------------
(* The claims *)

EndsWith(s, tail) == StartsWithAt(s, tail, Len(s) - Len(tail))

\* The suffix rewrite_section holds for the text of this pass.
SectionSuffix == split_section(CurrentData, _BEGIN_SECTION, _END_SECTION)[3]

\* <<i, j>>: the first begin-marker of t is at i and the end-marker closing
\* it (the first one after it) is at j.
MarkerPairs(t) ==
  {p \in (0..Len(t)) \X (0..Len(t)) :
     /\ StartsWithAt(t, _BEGIN_SECTION, p[1])
     /\ \A k \in 0..(p[1] - 1) : ~StartsWithAt(t, _BEGIN_SECTION, k)
     /\ p[2] >= p[1] + Len(_BEGIN_SECTION)
     /\ StartsWithAt(t, _END_SECTION, p[2])
     /\ \A k \in (p[1] + Len(_BEGIN_SECTION))..(p[2] - 1) :
          ~StartsWithAt(t, _END_SECTION, k)}

HasMarker(t) == PyIn(_BEGIN_SECTION, t) \/ PyIn(_END_SECTION, t)

\* No marker at all, or one begin-marker and one end-marker, in this order.
OneSectionAtMost(t) ==
  \/ ~HasMarker(t)
  \/ /\ Occurrences(t, _BEGIN_SECTION) = 1
     /\ Occurrences(t, _END_SECTION) = 1
     /\ PyFind(t, _BEGIN_SECTION, 0) < PyFind(t, _END_SECTION, 0)

\* Exactly one begin-marker and one end-marker, in this order.
Balanced(t) ==
  /\ Occurrences(t, _BEGIN_SECTION) = 1
  /\ Occurrences(t, _END_SECTION) = 1
  /\ PyFind(t, _BEGIN_SECTION, 0) < PyFind(t, _END_SECTION, 0)

RulesHave(marker) == \E i \in 1..Len(manifest) : PyIn(marker, manifest[i])

\* C1: on every exit of the with-block of rewrite_section, the failing one
\* included, the text written to fp ends with the end-marker, a newline and
\* the suffix.
C1_EndWrittenOnEveryExit ==
  mpc \in {"done", "raised"} =>
    EndsWith(fp, _END_SECTION \o "\n" \o SectionSuffix)

\* C2: whatever the existing text (empty, without markers, with one marker
\* only, with an empty pair) and the rules, the rendered text holds exactly
\* one begin-marker and one end-marker, the begin-marker first.
C2_MarkersBalancedForAnyInput == mpc = "done" => Balanced(fp)

\* C2 as amended: when the existing text holds no marker, or exactly one
\* begin-marker followed by exactly one end-marker, and no rule holds a
\* marker, the rendered text holds exactly one begin-marker and one
\* end-marker, the begin-marker first.
C2_MarkersBalancedForOneSection ==
  (/\ mpc = "done"
   /\ OneSectionAtMost(CurrentData)
   /\ ~RulesHave(_BEGIN_SECTION)
   /\ ~RulesHave(_END_SECTION)) => Balanced(fp)

\* C2's case: an existing text with hand-written text and an empty begin/end
\* pair, rendered with rules.
C2_Witness ==
  /\ mpc = "done"
  /\ pass = 1
  /\ CurrentData = "x" \o _BEGIN_SECTION \o _END_SECTION
  /\ manifest = <<"include LICENSE", "include LICENSE">>
  /\ Balanced(fp)

\* C3: for an existing text P + begin + M + end + S the rendered text starts
\* with P + begin and ends with end + newline + S, where S may only have lost
\* a line terminator that directly followed the end-marker.
C3_HandWrittenTextKept ==
  mpc = "done" =>
    \A p \in MarkerPairs(CurrentData) :
      LET P == PySlice(CurrentData, 0, p[1])
          S == PySliceFrom(CurrentData, p[2] + Len(_END_SECTION))
      IN  /\ StartsWithAt(fp, P \o _BEGIN_SECTION, 0)
          /\ \/ EndsWith(fp, _END_SECTION \o "\n" \o S)
             \/ /\ StartsWithAt(S, "\n", 0)
                /\ EndsWith(fp, _END_SECTION \o "\n" \o PySliceFrom(S, 1))

\* C4: rendering the first render's text again with the same rules gives
\* the same text.
C4_RenderIdempotent == (mpc = "done" /\ pass = 2) => fp = first

\* The first begin-marker of t, if there is one, has an end-marker after it.
SectionClosed(t) ==
  PyIn(_BEGIN_SECTION, t) => PyFind(t, _END_SECTION, PyFind(t, _BEGIN_SECTION, 0)) >= 0

\* C4 as amended: when the first begin-marker of the existing text, if any,
\* is followed by an end-marker, and no rule holds the end-marker, rendering
\* the first render's text again with the same rules gives the same text.
C4_RenderIdempotentWhenClosed ==
  (/\ mpc = "done"
   /\ pass = 2
   /\ SectionClosed(existing)
   /\ ~RulesHave(_END_SECTION)) => fp = first

\* C4's case: hand-written text around a managed section, rendered twice.
C4_Witness ==
  /\ mpc = "done"
  /\ pass = 2
  /\ existing = "x" \o _BEGIN_SECTION \o _END_SECTION
  /\ manifest = <<"include LICENSE", _BEGIN_SECTION>>
  /\ fp = first
  /\ fp # existing

\* A declared artifact was not in dist when the subprocess returned.
ArtifactMissing ==
  \E i \in 1..Len(formats) : get_build_artifacts[i] \notin distAtExit

\* C5: build returns FAILURE exactly when the exit code is not zero; with
\* exit code zero and a declared artifact missing from dist it raises, and
\* returns neither FAILURE nor SUCCESS.
C5_OutcomeFollowsExitCode ==
  bpc = "done" =>
    /\ (result = "FAILURE") <=> (res # 0)
    /\ (res = 0 /\ ArtifactMissing) => result \in {"RuntimeError", "FileNotFoundError"}

\* C5's cases: a zero exit code with a missing artifact, ended by the
\* RuntimeError of line 117.
C5_Witness ==
  /\ bpc = "done"
  /\ res = 0
  /\ ArtifactMissing
  /\ result = "RuntimeError"
  /\ formats = <<"gztar", "zip">>
  /\ distAtExit = {"demo-1.0.tar.gz"}

\* C6: when build returns SUCCESS, dist exists afterwards exactly if it
\* existed before the invocation.
C6_DistKeptOrRemoved ==
  (bpc = "done" /\ result = "SUCCESS") =>
    ((dist_directory \in dirs) <=> distBefore)

\* C6's case: dist did not exist, the build made it, build() moved the
\* artifact out and removed dist.
C6_Witness ==
  /\ bpc = "done"
  /\ result = "SUCCESS"
  /\ ~distBefore
  /\ dist_directory \notin dirs
  /\ formats = <<"gztar">>
  /\ <<"out", "demo-1.0.tar.gz">> \in files

\* C10: when build returns SUCCESS, every declared artifact is a file of the
\* requested output directory.
C10_ArtifactsInOutputDirectory ==
  (bpc = "done" /\ result = "SUCCESS") =>
    \A i \in 1..Len(formats) :
      IsFile(files, build_directory, get_build_artifacts[i])

\* C9: a missing entry file reaches the caller as a file-not-found error;
\* an existing file without a version gives no ref and no error.
C9_MissingEntryFileRaises ==
  vpc = "done" =>
    /\ ~entryIsFile => verror = "FileNotFoundError"
    /\ (entryIsFile /\ entryReadable /\ ~PyIn(VersionWord, entryText)) =>
         (refs = <<>> /\ verror = "")

\* C9 as amended: a missing entry file gives no ref and no error, and so
\* does an existing, readable file without a version.
C9_MissingEntryFileYieldsNothing ==
  vpc = "done" =>
    /\ ~entryIsFile => (refs = <<>> /\ verror = "")
    /\ (entryIsFile /\ entryReadable /\ ~PyIn(VersionWord, entryText)) =>
         (refs = <<>> /\ verror = "")

\* C9's case: the scan of a path that is no file has ended.
C9_Witness == vpc = "done" /\ ~entryIsFile /\ refs = <<>> /\ verror = ""

\* The description read left to right: a pair of newlines becomes `par`,
\* any other newline a space.
RECURSIVE Unwrapped(_, _)
Unwrapped(d, par) ==
  IF d = "" THEN ""
  ELSE IF StartsWithAt(d, "\n\n", 0) THEN par \o Unwrapped(PySliceFrom(d, 2), par)
  ELSE IF StartsWithAt(d, "\n", 0) THEN " " \o Unwrapped(PySliceFrom(d, 1), par)
  ELSE SubSeq(d, 1, 1) \o Unwrapped(PySliceFrom(d, 1), par)

NoSpecs == \A i \in 1..Len(entrypoints) : entrypoints[i][2] = <<>>

\* C8: _render_entrypoints returns '{}' whenever no group has a spec.
C8_EmptyLiteralWhenNoSpecs == (epc = "done" /\ NoSpecs) => eout = "{}"

\* C8 as amended: _render_entrypoints returns '{}' exactly when the mapping
\* has no group; groups that all have empty lists are written out, each as
\* 'group': [ ] on two lines, between '{' and '  }'.
C8_EmptyLiteralWhenNoGroups ==
  epc = "done" =>
    /\ (eout = "{}") <=> (entrypoints = <<>>)
    /\ (entrypoints # <<>> /\ NoSpecs) =>
         /\ StartsWithAt(eout, "{\n", 0)
         /\ EndsWith(eout, "\n    ]\n  }")
         /\ \A i \in 1..Len(entrypoints) :
              PyIn("    '" \o entrypoints[i][1] \o "': [\n    ]", eout)

\* C8's case: one group with an empty list has been rendered.
C8_Witness ==
  /\ epc = "done"
  /\ entrypoints = << <<"console_scripts", <<>> >> >>
  /\ eout = "{\n    'console_scripts': [\n    ]\n  }"

=============================================================================
